---------------------------- MODULE Spec2Model ----------------------------
(***************************************************************************)
(* Ping delivery protocol of backend-test-fundraiseup.                     *)
(*                                                                         *)
(*   src/src/ping-client.js        the prober, the dispatcher and its      *)
(*                                 retry scheduler, the client counters    *)
(*   src/src/statistics-server.js  the collector endpoint, its failure     *)
(*                                 simulator and arrayStatistics           *)
(*                                                                         *)
(* Both programs run on one event loop each, so every callback is one      *)
(* atomic action.  Sockets carry no identity of their own here: a request  *)
(* in transit is the request's content, kept in a bag, so that two equal   *)
(* requests are still two requests.                                        *)
(***************************************************************************)
EXTENDS Integers, Sequences, FiniteSets, Bags, TLC

VARIABLES
    pingId,          \* ping-client.js:107   the next id the prober hands out
    statistics,      \* ping-client.js:51-56 the four client counters
    probes,          \* responseTime() calls whose request has not completed
    inflight,        \* bag of PingData whose request() promise is pending
    timers,          \* bag of pending setTimeout retries
    clientUp,        \* the client process has not exited
    reqs,            \* bag of HTTP requests on their way to the collector
    resps,           \* bag of HTTP responses on their way to the client
    collectedPings,  \* statistics-server.js:17
    serverUp,        \* the collector process has not exited
    serverReport,    \* what the collector's exit handler printed
    srvLast,         \* the request the collector handled last, and its outcome
    emitted,         \* history: the PingData the prober created, in order
    sent,            \* history: bag of every PingData handed to request()
    successLog,      \* history: bag of PingData whose .then handler ran
    unclassified     \* history: failures that matched neither counter

vars == << pingId, statistics, probes, inflight, timers, clientUp, reqs, resps,
           collectedPings, serverUp, serverReport, srvLast, emitted, sent,
           successLog, unclassified >>

clientVars == << pingId, statistics, probes, inflight, timers, clientUp,
                 emitted, sent, successLog, unclassified >>

-----------------------------------------------------------------------------
(* Bounds of the model *)

\* pings the prober emits before the model stops ticking
MaxPings == 2
\* requests the client sends, over all pings, before the model stops sending;
\* a retry scheduled after that stays a pending timer
MaxRequests == 4
\* requests the stand-alone collector accepts before the model stops feeding it
MaxStore == 4

\* (date, responseTime) pairs a probe may measure.  Date.now() is not
\* monotonic, so Date.now() - start can be negative (ping-client.js:117).
Samples == { [date |-> 100, responseTime |-> 42],
             [date |-> 200, responseTime |-> -1] }

-----------------------------------------------------------------------------
(* JSON values and HTTP messages *)

Keys == {"pingId", "deliveryAttempt", "date", "responseTime"}

Num(n) == [t |-> "number", v |-> n]
Str == [t |-> "string", v |-> 0]
Undefined == [t |-> "undefined", v |-> 0]

\* JSON.stringify of a PingData: an object text with four number members
JSONstringify(ping) ==
    [kind |-> "object", f |-> [k \in Keys |-> Num(ping[k])]]

\* the PingData a parsed object stands for (its members read as numbers)
ToPing(obj) ==
    [pingId |-> obj["pingId"].v, deliveryAttempt |-> obj["deliveryAttempt"].v,
     date |-> obj["date"].v, responseTime |-> obj["responseTime"].v]

\* the options and data of the request() call in sendPingToStatisticsServer
ClientRequest(ping) ==
    [method |-> "POST", url |-> "/data", ctype |-> "application/json",
     body |-> JSONstringify(ping)]

NoRequest ==
    [method |-> "", url |-> "", ctype |-> "",
     body |-> [kind |-> "none", f |-> [k \in Keys |-> Undefined]]]


-----------------------------------------------------------------------------
(* The collector: statistics-server.js *)

\* Math.random() is a real in [0, 1); the model counts in hundredths
OK_CHANCE == 60
ERROR_CHANCE == 20
RSamples == {59, 60, 79, 80}

KeyOrder == << "date", "pingId", "deliveryAttempt", "responseTime" >>

\* the assertion without its typeof test
assertPositiveNumberUntyped(obj, key) ==
    /\ obj.kind = "object"
    /\ obj.f[key].v >= 0

\* the assertion without its >= 0 test
assertPositiveNumberAnySign(obj, key) ==
    /\ obj.kind = "object"
    /\ obj.f[key].t = "number"

\* the condition asserted by assertPositiveNumber(obj, key)
assertPositiveNumber(obj, key) ==
    /\ obj.kind = "object"
    /\ obj.f[key].t = "number"
    /\ obj.f[key].v >= 0

ExpectedMessage(key) ==
    CASE key = "date" -> "Expected date to be a positive number"
      [] key = "pingId" -> "Expected pingId to be a positive number"
      [] key = "deliveryAttempt" -> "Expected deliveryAttempt to be a positive number"
      [] OTHER -> "Expected responseTime to be a positive number"

Throw(message, store, drew) ==
    [threw |-> TRUE, status |-> 0, body |-> message, store |-> store, drew |-> drew]

\* the success branch taken up to and including OK_CHANCE
FailureSimulatorInclusive(pingData, r, store) ==
    IF r <= OK_CHANCE
    THEN [threw |-> FALSE, status |-> 200, body |-> "OK",
          store |-> Append(store, pingData), drew |-> TRUE]
    ELSE IF r <= OK_CHANCE + ERROR_CHANCE
    THEN Throw("Random internal error", store, TRUE)
    ELSE [threw |-> FALSE, status |-> 0, body |-> "", store |-> store, drew |-> TRUE]

\* the success branch answering 200 without the push
FailureSimulatorNoPush(pingData, r, store) ==
    IF r < OK_CHANCE
    THEN [threw |-> FALSE, status |-> 200, body |-> "OK", store |-> store, drew |-> TRUE]
    ELSE IF r < OK_CHANCE + ERROR_CHANCE
    THEN Throw("Random internal error", store, TRUE)
    ELSE [threw |-> FALSE, status |-> 0, body |-> "", store |-> store, drew |-> TRUE]

\* the success branch with collectedPings.unshift(pingData)
FailureSimulatorUnshift(pingData, r, store) ==
    IF r < OK_CHANCE
    THEN [threw |-> FALSE, status |-> 200, body |-> "OK",
          store |-> << pingData >> \o store, drew |-> TRUE]
    ELSE IF r < OK_CHANCE + ERROR_CHANCE
    THEN Throw("Random internal error", store, TRUE)
    ELSE [threw |-> FALSE, status |-> 0, body |-> "", store |-> store, drew |-> TRUE]

\* the three branches of onPostData on r = Math.random() * 100, taken once
\* pingData has passed the assertions.  status 0 is "no response written".
FailureSimulator(pingData, r, store) ==
    IF r < OK_CHANCE
    THEN [threw |-> FALSE, status |-> 200, body |-> "OK",
          store |-> Append(store, pingData), drew |-> TRUE]
    ELSE IF r < OK_CHANCE + ERROR_CHANCE
    THEN Throw("Random internal error", store, TRUE)
    ELSE [threw |-> FALSE, status |-> 0, body |-> "", store |-> store, drew |-> TRUE]

\* onPostData(req, res) with the store as it is on entry
onPostData(req, r, store) ==
    IF req.ctype # "application/json" THEN Throw("AssertionError", store, FALSE)
    ELSE IF req.body.kind \notin {"object", "null"} THEN Throw("SyntaxError", store, FALSE)
    ELSE IF req.body.kind = "null" THEN Throw("TypeError", store, FALSE)
    ELSE IF \E i \in 1..4 : ~assertPositiveNumber(req.body, KeyOrder[i])
    THEN LET i == CHOOSE j \in 1..4 :
                      /\ ~assertPositiveNumber(req.body, KeyOrder[j])
                      /\ \A k \in 1..(j-1) : assertPositiveNumber(req.body, KeyOrder[k])
         IN  Throw(ExpectedMessage(KeyOrder[i]), store, FALSE)
    ELSE FailureSimulator(req.body.f, r, store)

\* the route test with || for &&
statisticsServerEitherRoute(req, r, store) ==
    IF req.method = "POST" \/ req.url = "/data"
    THEN LET o == onPostData(req, r, store)
         IN  IF o.threw
             THEN [status |-> 500, body |-> o.body, store |-> o.store, drew |-> o.drew]
             ELSE [status |-> o.status, body |-> o.body, store |-> o.store, drew |-> o.drew]
    ELSE [status |-> 400, body |-> "", store |-> store, drew |-> FALSE]

\* the request listener of http.createServer
statisticsServer(req, r, store) ==
    IF req.method = "POST" /\ req.url = "/data"
    THEN LET o == onPostData(req, r, store)
         IN  IF o.threw
             THEN [status |-> 500, body |-> o.body, store |-> o.store, drew |-> o.drew]
             ELSE [status |-> o.status, body |-> o.body, store |-> o.store, drew |-> o.drew]
    ELSE [status |-> 400, body |-> "", store |-> store, drew |-> FALSE]

RECURSIVE reduce(_, _)
\* array.reduce((acc, curr) => acc + curr, acc0)
reduce(array, acc) ==
    IF array = << >> THEN acc ELSE reduce(Tail(array), acc + Head(array))

RECURSIVE Insert(_, _)
Insert(x, sorted) ==
    IF sorted = << >> THEN << x >>
    ELSE IF x - Head(sorted) < 0 THEN << x >> \o sorted
    ELSE << Head(sorted) >> \o Insert(x, Tail(sorted))

RECURSIVE sort(_)
\* array.sort((a, b) => a - b)
sort(array) ==
    IF array = << >> THEN << >>
    ELSE Insert(array[Len(array)], sort(SubSeq(array, 1, Len(array) - 1)))

\* arrayStatistics with the lower middle element as the median
arrayStatisticsLowerMedian(array) ==
    IF Len(array) > 0
    THEN [kind |-> "statistics",
          length |-> Len(array),
          average |-> [num |-> reduce(array, 0), den |-> Len(array)],
          median |-> sort(array)[((Len(array) - 1) \div 2) + 1]]
    ELSE [kind |-> "No data collected",
          length |-> 0, average |-> [num |-> 0, den |-> 1], median |-> 0]

\* arrayStatistics(array); the average is the quotient num/den
arrayStatistics(array) ==
    IF Len(array) > 0
    THEN [kind |-> "statistics",
          length |-> Len(array),
          average |-> [num |-> reduce(array, 0), den |-> Len(array)],
          median |-> sort(array)[(Len(array) \div 2) + 1]]
    ELSE [kind |-> "No data collected",
          length |-> 0, average |-> [num |-> 0, den |-> 1], median |-> 0]

\* collectedPings.map((x) => x.responseTime)
ResponseTimes(store) == [i \in 1..Len(store) |-> store[i]["responseTime"].v]

NoReport ==
    [kind |-> "none", length |-> 0, average |-> [num |-> 0, den |-> 1], median |-> 0]

NoOutcome == [req |-> NoRequest, r |-> -1, status |-> 0, body |-> ""]

\* a request of the client reaches the collector: one run of the request
\* listener.  The response, if one is written, travels back on the socket.
ServerHandle(req, r) ==
    /\ serverUp
    /\ BagIn(req, reqs)
    /\ reqs' = reqs (-) SetToBag({req})
    /\ LET o == statisticsServer(req, r, collectedPings)
       IN  /\ collectedPings' = o.store
           /\ resps' = IF clientUp /\ o.status # 0
                       THEN resps (+) SetToBag({[req |-> req, status |-> o.status]})
                       ELSE resps
    /\ UNCHANGED << clientVars, serverUp, serverReport, srvLast >>

\* a request sent by some other HTTP client is handled; srvLast is what that
\* client sent and what it saw come back
ExternalRequest(req, r) ==
    /\ serverUp
    /\ Len(collectedPings) < MaxStore
    /\ LET o == statisticsServer(req, r, collectedPings)
       IN  /\ collectedPings' = o.store
           /\ srvLast' = [req |-> req, r |-> IF o.drew THEN r ELSE -1,
                          status |-> o.status, body |-> o.body]
    /\ UNCHANGED << clientVars, reqs, resps, serverUp, serverReport >>

\* process.on('exit') of the collector
ServerExit ==
    /\ serverUp
    /\ serverUp' = FALSE
    /\ serverReport' = arrayStatistics(ResponseTimes(collectedPings))
    /\ UNCHANGED << clientVars, reqs, resps, collectedPings, srvLast >>

-----------------------------------------------------------------------------
(* The client: ping-client.js *)

RECURSIVE BitXor(_, _)
\* a ^ b on non-negative 32-bit integers
BitXor(a, b) ==
    IF a = 0 THEN b
    ELSE IF b = 0 THEN a
    ELSE (((a % 2) + (b % 2)) % 2) + 2 * BitXor(a \div 2, b \div 2)

\* the delay with ^ read as exponentiation
RetryDelayPower(deliveryAttempt) == 1000 * (2 ^ deliveryAttempt)

\* the delay argument of setTimeout: 1000 * (2 ^ ping.deliveryAttempt)
RetryDelay(deliveryAttempt) == 1000 * BitXor(2, deliveryAttempt)

\* the errors request() rejects with
HTTPError(statusCode) == [name |-> "HTTPError", statusCode |-> statusCode]
TimeoutError == [name |-> "TimeoutError", statusCode |-> 0]
SocketError == [name |-> "Error", statusCode |-> 0]

\* the retry sent with the object it failed with
RetryPingSameAttempt(ping) == ping

\* the object the retry is sent with: {...ping, deliveryAttempt: ping.deliveryAttempt + 1}
RetryPing(ping) == [ping EXCEPT !.deliveryAttempt = ping.deliveryAttempt + 1]

\* sendPingToStatisticsServer counting a ping once, on its first attempt
sendPingCountedOnce(ping) ==
    /\ statistics' = IF ping.deliveryAttempt = 1
                     THEN [statistics EXCEPT !.requests = @ + 1]
                     ELSE statistics
    /\ reqs' = reqs (+) SetToBag({ClientRequest(ping)})
    /\ inflight' = inflight (+) SetToBag({ping})
    /\ sent' = sent (+) SetToBag({ping})

\* the synchronous part of sendPingToStatisticsServer(ping): count the request
\* and hand it to request(); statistics' is set here
sendPingToStatisticsServer(ping) ==
    /\ statistics' = [statistics EXCEPT !.requests = @ + 1]
    /\ reqs' = reqs (+) SetToBag({ClientRequest(ping)})
    /\ inflight' = inflight (+) SetToBag({ping})
    /\ sent' = sent (+) SetToBag({ping})

\* the success handler followed by the retry, as with .finally for .catch
OnFulfilledAndRetry(ping) ==
    /\ statistics' = [statistics EXCEPT !.success = @ + 1]
    /\ inflight' = inflight (-) SetToBag({ping})
    /\ successLog' = successLog (+) SetToBag({ping})
    /\ timers' = timers (+) SetToBag({[ping |-> RetryPing(ping),
                                       delay |-> RetryDelay(ping.deliveryAttempt),
                                       err |-> SocketError]})
    /\ UNCHANGED unclassified

\* the .then handler of sendPingToStatisticsServer for attempt ping
OnFulfilled(ping) ==
    /\ statistics' = [statistics EXCEPT !.success = @ + 1]
    /\ inflight' = inflight (-) SetToBag({ping})
    /\ successLog' = successLog (+) SetToBag({ping})
    /\ UNCHANGED << timers, unclassified >>

\* the classification without its statusCode test
ClassifyAnyStatus(e) ==
    IF e.name = "HTTPError"
    THEN [statistics EXCEPT !.errors500 = @ + 1]
    ELSE IF e.name = "TimeoutError"
    THEN [statistics EXCEPT !.errorsTimeout = @ + 1]
    ELSE statistics

\* the classification counting a timeout with the 500s
ClassifyTimeoutAs500(e) ==
    IF (e.name = "HTTPError" /\ e.statusCode = 500) \/ e.name = "TimeoutError"
    THEN [statistics EXCEPT !.errors500 = @ + 1]
    ELSE statistics

\* the counters after the .catch handler has classified e
Classify(e) ==
    IF e.name = "HTTPError" /\ e.statusCode = 500
    THEN [statistics EXCEPT !.errors500 = @ + 1]
    ELSE IF e.name = "TimeoutError"
    THEN [statistics EXCEPT !.errorsTimeout = @ + 1]
    ELSE statistics

\* the .catch handler retrying only the failures it counts
OnRejectedRetryCounted(ping, e) ==
    /\ statistics' = Classify(e)
    /\ unclassified' = IF Classify(e) = statistics THEN unclassified + 1 ELSE unclassified
    /\ timers' = IF Classify(e) = statistics
                 THEN timers
                 ELSE timers (+) SetToBag({[ping |-> RetryPing(ping),
                                            delay |-> RetryDelay(ping.deliveryAttempt),
                                            err |-> e]})
    /\ inflight' = inflight (-) SetToBag({ping})
    /\ UNCHANGED successLog

\* the .catch handler of sendPingToStatisticsServer for attempt ping
OnRejected(ping, e) ==
    /\ statistics' = Classify(e)
    /\ unclassified' = IF Classify(e) = statistics THEN unclassified + 1 ELSE unclassified
    /\ timers' = timers (+) SetToBag({[ping |-> RetryPing(ping),
                                       delay |-> RetryDelay(ping.deliveryAttempt),
                                       err |-> e]})
    /\ inflight' = inflight (-) SetToBag({ping})
    /\ UNCHANGED successLog

\* the responses in transit that answer attempt ping
Answers(ping) == {x \in BagToSet(resps) : x.req = ClientRequest(ping)}

\* the socket of attempt ping is destroyed: what was on it in either
\* direction is not delivered
DropSocket(ping) ==
    /\ resps' = [x \in BagToSet(resps) \ Answers(ping) |-> resps[x]]
    /\ reqs' = [x \in BagToSet(reqs) \ {ClientRequest(ping)} |-> reqs[x]]

\* the interval callback waiting until no delivery is outstanding
TickWhenIdle ==
    /\ clientUp
    /\ pingId + probes <= MaxPings
    /\ inflight = EmptyBag
    /\ timers = EmptyBag
    /\ probes' = probes + 1
    /\ UNCHANGED << pingId, statistics, inflight, timers, clientUp, reqs, resps,
                    collectedPings, serverUp, serverReport, srvLast, emitted,
                    sent, successLog, unclassified >>

\* the setInterval callback: start one probe of the target
Tick ==
    /\ clientUp
    /\ pingId + probes <= MaxPings
    /\ probes' = probes + 1
    /\ UNCHANGED << pingId, statistics, inflight, timers, clientUp, reqs, resps,
                    collectedPings, serverUp, serverReport, srvLast, emitted,
                    sent, successLog, unclassified >>

\* the .then callback with pingId: ++pingId
ProbeDonePreIncrement(s) ==
    /\ clientUp
    /\ probes > 0
    /\ BagCardinality(sent) < MaxRequests
    /\ LET ping == [pingId |-> pingId + 1, date |-> s.date, deliveryAttempt |-> 1,
                    responseTime |-> s.responseTime]
       IN  /\ sendPingToStatisticsServer(ping)
           /\ emitted' = Append(emitted, ping)
    /\ pingId' = pingId + 1
    /\ probes' = probes - 1
    /\ UNCHANGED << timers, clientUp, resps, collectedPings, serverUp,
                    serverReport, srvLast, successLog, unclassified >>

\* a probe completes: the .then callback of responseTime() builds the PingData
\* and sends it
ProbeDone(s) ==
    /\ clientUp
    /\ probes > 0
    /\ BagCardinality(sent) < MaxRequests
    /\ LET ping == [pingId |-> pingId, date |-> s.date, deliveryAttempt |-> 1,
                    responseTime |-> s.responseTime]
       IN  /\ sendPingToStatisticsServer(ping)
           /\ emitted' = Append(emitted, ping)
    /\ pingId' = pingId + 1
    /\ probes' = probes - 1
    /\ UNCHANGED << timers, clientUp, resps, collectedPings, serverUp,
                    serverReport, srvLast, successLog, unclassified >>

\* a probe request fails: responseTime() rejects and nothing handles it.  The
\* runtime either reports the unhandled rejection and goes on, or ends the
\* process.
ProbeFail ==
    /\ clientUp
    /\ probes > 0
    /\ probes' = probes - 1
    /\ \/ clientUp' = TRUE
       \/ clientUp' = FALSE
    /\ UNCHANGED << pingId, statistics, inflight, timers, reqs, resps,
                    collectedPings, serverUp, serverReport, srvLast, emitted,
                    sent, successLog, unclassified >>

\* res 'end' of request(): the response x reaches the client
ResponseEnd(ping, x) ==
    /\ clientUp
    /\ BagIn(ping, inflight)
    /\ x \in Answers(ping)
    /\ resps' = resps (-) SetToBag({x})
    /\ IF x.status = 200
       THEN OnFulfilled(ping)
       ELSE OnRejected(ping, HTTPError(x.status))
    /\ UNCHANGED << pingId, probes, clientUp, reqs, collectedPings, serverUp,
                    serverReport, srvLast, emitted, sent >>

\* whoever listens on localhost:8080 answers with a status other than 200 and 500
ForeignStatus(ping) ==
    /\ clientUp
    /\ BagIn(ping, inflight)
    /\ DropSocket(ping)
    /\ OnRejected(ping, HTTPError(400))
    /\ UNCHANGED << pingId, probes, clientUp, collectedPings, serverUp,
                    serverReport, srvLast, emitted, sent >>

\* req 'timeout' with a listener that leaves the socket open
TimeoutIgnored(ping) ==
    /\ clientUp
    /\ BagIn(ping, inflight)
    /\ UNCHANGED vars

\* req 'timeout' of request(): the socket was idle and is destroyed
Timeout(ping) ==
    /\ clientUp
    /\ BagIn(ping, inflight)
    /\ DropSocket(ping)
    /\ OnRejected(ping, TimeoutError)
    /\ UNCHANGED << pingId, probes, clientUp, collectedPings, serverUp,
                    serverReport, srvLast, emitted, sent >>

\* req 'error' calling the handler whether or not the attempt has completed
TransportErrorEveryTime(ping) ==
    /\ clientUp
    /\ DropSocket(ping)
    /\ OnRejected(ping, SocketError)
    /\ UNCHANGED << pingId, probes, clientUp, collectedPings, serverUp,
                    serverReport, srvLast, emitted, sent >>

\* req 'error' of request(): the connection is refused or reset.  reject()
\* settles the promise only while it is pending: BagIn(ping, inflight).
TransportError(ping) ==
    /\ clientUp
    /\ BagIn(ping, inflight)
    /\ DropSocket(ping)
    /\ OnRejected(ping, SocketError)
    /\ UNCHANGED << pingId, probes, clientUp, collectedPings, serverUp,
                    serverReport, srvLast, emitted, sent >>

\* the setTimeout callback of the .catch handler
RetryFire(t) ==
    /\ clientUp
    /\ BagIn(t, timers)
    /\ BagCardinality(sent) < MaxRequests
    /\ timers' = timers (-) SetToBag({t})
    /\ sendPingToStatisticsServer(t.ping)
    /\ UNCHANGED << pingId, probes, clientUp, resps, collectedPings, serverUp,
                    serverReport, srvLast, emitted, successLog, unclassified >>

\* SIGINT: process.exit(0); sockets and timers die with the process
ClientExit ==
    /\ clientUp
    /\ clientUp' = FALSE
    /\ resps' = EmptyBag
    /\ UNCHANGED << pingId, statistics, probes, inflight, timers, reqs,
                    collectedPings, serverUp, serverReport, srvLast, emitted,
                    sent, successLog, unclassified >>

-----------------------------------------------------------------------------
(* The protocol: one client and the collector *)

Init ==
    /\ pingId = 1
    /\ statistics = [requests |-> 0, success |-> 0, errors500 |-> 0, errorsTimeout |-> 0]
    /\ probes = 0
    /\ inflight = EmptyBag
    /\ timers = EmptyBag
    /\ clientUp = TRUE
    /\ reqs = EmptyBag
    /\ resps = EmptyBag
    /\ collectedPings = << >>
    /\ serverUp = TRUE
    /\ serverReport = NoReport
    /\ srvLast = NoOutcome
    /\ emitted = << >>
    /\ sent = EmptyBag
    /\ successLog = EmptyBag
    /\ unclassified = 0

Next ==
    \/ Tick
    \/ \E s \in Samples : ProbeDone(s)
    \/ ProbeFail
    \/ \E req \in BagToSet(reqs) : \E r \in RSamples : ServerHandle(req, r)
    \/ \E ping \in BagToSet(sent) : \E x \in BagToSet(resps) : ResponseEnd(ping, x)
    \/ \E ping \in BagToSet(sent) : ForeignStatus(ping)
    \/ \E ping \in BagToSet(sent) : Timeout(ping)
    \/ \E ping \in BagToSet(sent) : TransportError(ping)
    \/ \E t \in BagToSet(timers) : RetryFire(t)
    \/ ClientExit

Spec == Init /\ [][Next]_vars

\* What the two event loops and the runtime guarantee while the processes
\* live: a due timer fires, an idle socket times out, a request that arrived
\* is handled and a response that arrived is read.  Nothing obliges a probe to
\* complete, the network to fail or the user to interrupt.
Fairness ==
    /\ WF_vars(\E t \in BagToSet(timers) : RetryFire(t))
    /\ WF_vars(\E ping \in BagToSet(sent) : Timeout(ping))
    /\ WF_vars(\E req \in BagToSet(reqs) : \E r \in RSamples : ServerHandle(req, r))
    /\ WF_vars(\E ping \in BagToSet(sent) : \E x \in BagToSet(resps) : ResponseEnd(ping, x))

FairSpec == Spec /\ Fairness

-----------------------------------------------------------------------------
(* The collector alone, driven by arbitrary HTTP clients *)

\* responseTime values the other clients report
StatSamples == {1, 2, 3, 4, 10, 42}

ValidBody(rt) ==
    JSONstringify([pingId |-> 0, deliveryAttempt |-> 1, date |-> 1700, responseTime |-> rt])

\* ValidBody(1) with member key replaced by value
BodyWith(key, value) ==
    [kind |-> "object", f |-> [ValidBody(1).f EXCEPT ![key] = value]]

Post(ctype, body) == [method |-> "POST", url |-> "/data", ctype |-> ctype, body |-> body]

ValidRequests == {Post("application/json", ValidBody(rt)) : rt \in StatSamples}

InvalidRequests ==
    {Post("text/plain", ValidBody(1)), Post("", ValidBody(1)),
     Post("application/json", [kind |-> "garbage", f |-> [k \in Keys |-> Undefined]]),
     Post("application/json", [kind |-> "null", f |-> [k \in Keys |-> Undefined]])}
    \cup {Post("application/json", BodyWith(k, v)) :
             k \in Keys, v \in {Undefined, Str, Num(-1)}}

WrongRouteRequests ==
    {[method |-> "GET", url |-> "/data", ctype |-> "application/json", body |-> ValidBody(1)],
     [method |-> "POST", url |-> "/", ctype |-> "application/json", body |-> ValidBody(1)],
     [method |-> "GET", url |-> "/", ctype |-> "",
      body |-> [kind |-> "garbage", f |-> [k \in Keys |-> Undefined]]]}

ExternalRequests == ValidRequests \cup InvalidRequests \cup WrongRouteRequests

NextServer ==
    \/ \E req \in ExternalRequests : \E r \in RSamples : ExternalRequest(req, r)
    \/ ServerExit

SpecServer == Init /\ [][NextServer]_vars

-----------------------------------------------------------------------------
(* Properties of the collector, checked under SpecServer *)

\* this step handled a request of another client
Handled == srvLast' # srvLast \/ collectedPings' # collectedPings

StoreUnchanged == collectedPings' = collectedPings

\* C6: a validated POST /data request gets exactly one of three outcomes, by
\* the value r drawn: r < 0.60 appends the record and answers 200 "OK";
\* 0.60 <= r < 0.80 answers 500 "Random internal error" with the store
\* unchanged; r >= 0.80 writes no response with the store unchanged.  A 200
\* is never sent without the record having been appended.
C6_ThreeOutcomes ==
    [][ (Handled /\ srvLast'.req \in ValidRequests) =>
          LET x == srvLast'
          IN  /\ x.r \in RSamples
              /\ x.r < 60 =>
                    /\ collectedPings' = Append(collectedPings, x.req.body.f)
                    /\ x.status = 200 /\ x.body = "OK"
              /\ (60 <= x.r /\ x.r < 80) =>
                    /\ StoreUnchanged
                    /\ x.status = 500 /\ x.body = "Random internal error"
              /\ x.r >= 80 =>
                    /\ StoreUnchanged
                    /\ x.status = 0
              /\ x.status = 200 =>
                    /\ Len(collectedPings') = Len(collectedPings) + 1
                    /\ ToPing(collectedPings'[Len(collectedPings')]) = ToPing(x.req.body.f)
    ]_vars

\* C6 witness: after two records were accepted, a valid request drew 0.80 and
\* got no response
C6_Witness ==
    /\ Len(collectedPings) = 2
    /\ srvLast.req \in ValidRequests
    /\ srvLast.r = 80
    /\ srvLast.status = 0

FailureMessages ==
    {"AssertionError", "SyntaxError", "TypeError",
     "Expected date to be a positive number",
     "Expected pingId to be a positive number",
     "Expected deliveryAttempt to be a positive number",
     "Expected responseTime to be a positive number"}

\* C7: an invalid POST /data request (wrong Content-Type, or a member of the
\* body missing, not a number or negative) always gets a 500 whose body is the
\* failure message, never a 200 and never a hang; the store is unchanged and
\* no random value is drawn.
C7_InvalidIs500 ==
    [][ (Handled /\ srvLast'.req \in InvalidRequests) =>
          /\ srvLast'.status = 500
          /\ srvLast'.body \in FailureMessages
          /\ srvLast'.r = -1
          /\ StoreUnchanged
    ]_vars

\* C7 witness: with a record in the store, a request whose responseTime is -1
\* was answered 500
C7_Witness ==
    /\ Len(collectedPings) > 0
    /\ srvLast.req = Post("application/json", BodyWith("responseTime", Num(-1)))
    /\ srvLast.status = 500

\* C8: a request whose method is not POST or whose path is not /data always
\* gets a 400 with an empty body, and nothing else happens: the body is not
\* validated, no random value is drawn, the store is unchanged.
C8_WrongRouteIs400 ==
    [][ (Handled /\ (srvLast'.req.method # "POST" \/ srvLast'.req.url # "/data")) =>
          /\ srvLast'.status = 400
          /\ srvLast'.body = ""
          /\ srvLast'.r = -1
          /\ StoreUnchanged
    ]_vars

\* C8 witness: with a record in the store, GET /data was answered 400
C8_Witness ==
    /\ Len(collectedPings) > 0
    /\ srvLast.req.method = "GET" /\ srvLast.req.url = "/data"
    /\ srvLast.status = 400

\* the responseTime members of the store, as the claim reads them
StoredTimes == [i \in 1..Len(collectedPings) |-> ToPing(collectedPings[i]).responseTime]

RECURSIVE SumUpTo(_, _)
SumUpTo(seq, n) == IF n = 0 THEN 0 ELSE SumUpTo(seq, n - 1) + seq[n]

\* m is the element at index floor(n/2) of seq sorted ascending: at most
\* floor(n/2) elements lie below m and more than floor(n/2) do not exceed it
IsUpperMedian(m, seq) ==
    LET n == Len(seq)
    IN  /\ \E i \in 1..n : seq[i] = m
        /\ Cardinality({i \in 1..n : seq[i] < m}) <= n \div 2
        /\ Cardinality({i \in 1..n : seq[i] <= m}) > n \div 2

\* C9: what the collector prints on exit: for a non-empty store of n values,
\* length = n, average = (sum of the values)/n and median = the element at
\* index floor(n/2) of the values sorted ascending (3 for 1,2,3,4 in any
\* order; 42 for [42]); for an empty store, the 'No data collected' marker.
C9_ArrayStatistics ==
    ~serverUp =>
        LET n == Len(StoredTimes)
        IN  /\ n = 0 => serverReport.kind = "No data collected"
            /\ n > 0 =>
                  /\ serverReport.kind = "statistics"
                  /\ serverReport.length = n
                  /\ serverReport.average.den # 0
                  /\ serverReport.average.num * n
                        = SumUpTo(StoredTimes, n) * serverReport.average.den
                  /\ IsUpperMedian(serverReport.median, StoredTimes)
            /\ (n = 4 /\ {StoredTimes[i] : i \in 1..n} = {1, 2, 3, 4}) =>
                  serverReport.median = 3
            /\ StoredTimes = << 42 >> => serverReport.median = 42

\* C9 witness: the collector exited with 3, 1, 4, 2 stored and printed median 3
C9_Witness ==
    /\ ~serverUp
    /\ StoredTimes = << 3, 1, 4, 2 >>
    /\ serverReport.median = 3
    /\ serverReport.length = 4

-----------------------------------------------------------------------------
(* Properties of the client, checked under Spec *)

\* the deliveryAttempt values sent so far for pingId id
AttemptsSent(id) == {a.deliveryAttempt : a \in {b \in BagToSet(sent) : b.pingId = id}}

\* C1: every attempt sent carries the pingId, date and responseTime of the
\* record the prober created; the attempts of one ping are 1, 2, .., k, each
\* sent once, and a pending retry carries k + 1.
C1_RetryInvariant ==
    /\ \A a \in BagToSet(sent) :
          /\ CopiesIn(a, sent) = 1
          /\ \E i \in 1..Len(emitted) :
                /\ emitted[i].pingId = a.pingId
                /\ emitted[i].date = a.date
                /\ emitted[i].responseTime = a.responseTime
    /\ \A i \in 1..Len(emitted) :
          /\ emitted[i].deliveryAttempt = 1
          /\ CopiesIn(emitted[i], sent) = 1
          /\ AttemptsSent(emitted[i].pingId) = 1..Cardinality(AttemptsSent(emitted[i].pingId))
          /\ Cardinality({a \in BagToSet(sent) : a.pingId = emitted[i].pingId})
                = Cardinality(AttemptsSent(emitted[i].pingId))
    /\ \A t \in BagToSet(timers) :
          /\ t.ping.deliveryAttempt = Cardinality(AttemptsSent(t.ping.pingId)) + 1
          /\ [t.ping EXCEPT !.deliveryAttempt = 1] \in BagToSet(sent)

\* C1 witness: a third attempt was sent for one ping while the retry of
\* another is pending
C1_Witness ==
    /\ \E a \in BagToSet(sent) : a.deliveryAttempt = 3
    /\ \E t \in BagToSet(timers) : t.ping.deliveryAttempt = 2

\* what this step added to a bag
Added(bag, bagNext) == {x \in BagToSet(bagNext) : CopiesIn(x, bagNext) > CopiesIn(x, bag)}

Bump(field) == statistics' = [statistics EXCEPT ![field] = @ + 1]

\* C3: requests goes up by 1 exactly when an attempt is sent; an attempt that
\* ends with HTTP 200 adds 1 to success alone, one that ends with HTTP 500 adds
\* 1 to errors500 alone, one that ends with the idle timeout adds 1 to
\* errorsTimeout alone, and any other failure leaves the counters as they are.
C3_CounterEffects ==
    [][ /\ Added(sent, sent') # {} => Bump("requests")
        /\ statistics'.requests # statistics.requests =>
              BagCardinality(sent') = BagCardinality(sent) + 1
        /\ Added(successLog, successLog') # {} =>
              /\ Bump("success")
              /\ \E x \in BagToSet(resps) :
                    /\ x.status = 200
                    /\ CopiesIn(x, resps') = CopiesIn(x, resps) - 1
        /\ \A t \in Added(timers, timers') :
              /\ t.err = HTTPError(500) => Bump("errors500")
              /\ t.err = TimeoutError => Bump("errorsTimeout")
              /\ t.err \notin {HTTPError(500), TimeoutError} => statistics' = statistics
              /\ t.err.name = "HTTPError" /\ t.err.statusCode # 400 =>
                    \E x \in BagToSet(resps) :
                       /\ x.status = t.err.statusCode
                       /\ CopiesIn(x, resps') = CopiesIn(x, resps) - 1
        /\ statistics' # statistics =>
              \/ Added(sent, sent') # {}
              \/ Added(successLog, successLog') # {}
              \/ Added(timers, timers') # {}
    ]_vars

\* C3 witness: every counter has moved and one failure was counted by none
C3_Witness ==
    /\ statistics.success = 1
    /\ statistics.errors500 = 1
    /\ statistics.errorsTimeout = 1
    /\ unclassified = 1
    /\ statistics.requests = 4

\* C4: requests = success + errors500 + errorsTimeout + unclassified failures
\* + attempts in flight, in every state.
C4_StatisticsConsistency ==
    statistics.requests = statistics.success + statistics.errors500
                          + statistics.errorsTimeout + unclassified
                          + BagCardinality(inflight)

\* C4 witness: an attempt is in flight after a success, a 500 and an
\* unclassified failure
C4_Witness ==
    /\ BagCardinality(inflight) = 1
    /\ statistics.success = 1
    /\ statistics.errors500 = 1
    /\ unclassified = 1

\* 2 XOR n for n >= 0: XOR with 2 flips the bit of weight 2
Xor2(n) == IF (n \div 2) % 2 = 1 THEN n - 2 ELSE n + 2

-----------------------------------------------------------------------------
(* Progress of the client, checked under FairSpec *)

\* the model has sent all the requests it may send
Exhausted == BagCardinality(sent) >= MaxRequests

PingIds == 1..MaxPings
Attempts == 1..MaxRequests

\* attempt n of ping id has failed and its retry is scheduled
RetryPending(id, n) ==
    \E t \in BagToSet(timers) : t.ping.pingId = id /\ t.ping.deliveryAttempt = n + 1

AttemptSent(id, n) ==
    \E a \in BagToSet(sent) : a.pingId = id /\ a.deliveryAttempt = n

\* C2: every failed attempt N, whatever its cause, schedules exactly one retry
\* with deliveryAttempt N + 1, and while the process lives that retry is
\* eventually sent (in the model: unless its request budget is used up).
C2_AlwaysRetried ==
    /\ [][ \A a \in BagToSet(inflight) :
              CopiesIn(a, inflight') < CopiesIn(a, inflight) =>
                 \/ Added(successLog, successLog') = {a}
                 \/ /\ Added(successLog, successLog') = {}
                    /\ BagCardinality(timers') = BagCardinality(timers) + 1
                    /\ \A t \in Added(timers, timers') :
                          t.ping = [a EXCEPT !.deliveryAttempt = a.deliveryAttempt + 1]
                    /\ Added(timers, timers') # {}
         ]_vars
    /\ \A id \in PingIds : \A n \in Attempts :
          RetryPending(id, n) ~> (AttemptSent(id, n + 1) \/ ~clientUp \/ Exhausted)

\* C2 witness: a second attempt went out after a failure no counter records,
\* and a third after an idle timeout
C2_Witness ==
    /\ unclassified = 1
    /\ statistics.errorsTimeout = 1
    /\ statistics.errors500 = 0
    /\ \E a \in BagToSet(inflight) : a.deliveryAttempt = 3

\* a record of ping id is in the store
Stored(id) == \E i \in 1..Len(collectedPings) : ToPing(collectedPings[i]).pingId = id

\* C5: every ping the prober emits with a valid payload is eventually in the
\* store and counted as a success, while the client lives (in the model:
\* unless its request budget is used up).
C5_ReliableDelivery ==
    \A id \in PingIds :
        (\E i \in 1..Len(emitted) : emitted[i].pingId = id /\ emitted[i].responseTime >= 0)
        ~> \/ Stored(id) /\ \E a \in BagToSet(successLog) : a.pingId = id
           \/ ~clientUp
           \/ Exhausted

\* C5 witness: a valid ping was stored and counted on its second attempt with
\* requests to spare
C5_Witness ==
    /\ clientUp
    /\ ~Exhausted
    /\ \E a \in BagToSet(successLog) :
          /\ a.deliveryAttempt = 2
          /\ a.responseTime >= 0
          /\ Stored(a.pingId)

-----------------------------------------------------------------------------
(* Backoff, ids and the shape of a delivery chain *)

\* C11: the retry that follows failed attempt N waits 1000 * 2^N ms, so the
\* delays of a chain double and none is zero.
C11_ExponentialBackoff ==
    \A t \in BagToSet(timers) :
        /\ t.delay = 1000 * (2 ^ (t.ping.deliveryAttempt - 1))
        /\ t.delay > 0

\* C12: the k-th PingData the prober emits has pingId k and deliveryAttempt 1,
\* the next id is always one more than the number emitted, and a probe that
\* ends without emitting uses up no id.
C12_ConsecutiveIds ==
    /\ [](/\ pingId = Len(emitted) + 1
          /\ \A k \in 1..Len(emitted) :
                /\ emitted[k].pingId = k
                /\ emitted[k].deliveryAttempt = 1
          /\ \A j, k \in 1..Len(emitted) :
                emitted[j].pingId = emitted[k].pingId => j = k)
    /\ [][ /\ (probes' < probes /\ emitted' = emitted) => pingId' = pingId
           /\ emitted' # emitted =>
                 /\ Len(emitted') = Len(emitted) + 1
                 /\ SubSeq(emitted', 1, Len(emitted)) = emitted
                 /\ probes' = probes - 1
         ]_vars

\* C12 witness: two probes overlapped and both emitted, the second with id 2
C12_Witness ==
    /\ Len(emitted) = 2
    /\ emitted[2].pingId = 2
    /\ emitted[1].date # emitted[2].date
    /\ probes = 0
    /\ statistics.requests = 2

InFlightOf(id) == {a \in BagToSet(inflight) : a.pingId = id}
TimersOf(id) == {t \in BagToSet(timers) : t.ping.pingId = id}
SuccessesOf(id) == {a \in BagToSet(successLog) : a.pingId = id}

RECURSIVE CopiesOver(_, _)
\* the number of copies the bag holds of the elements of set
CopiesOver(bag, set) ==
    IF set = {} THEN 0
    ELSE LET x == CHOOSE y \in set : TRUE
         IN  CopiesIn(x, bag) + CopiesOver(bag, set \ {x})

\* C13: a ping that was sent is in exactly one place: one attempt in flight,
\* or one retry timer pending, or one success counted.  So no two attempts of
\* a ping are in flight together, no timer is pending beside an attempt in
\* flight, and no attempt completes twice; the attempt in flight is the last
\* one sent, and a pending retry follows the last one sent.
C13_OneAttemptAtATime ==
    \A k \in 1..Len(emitted) :
        LET id == emitted[k].pingId
            last == Cardinality(AttemptsSent(id))
        IN  /\ CopiesOver(inflight, InFlightOf(id)) + CopiesOver(timers, TimersOf(id))
                  + CopiesOver(successLog, SuccessesOf(id)) = 1
            /\ \A a \in InFlightOf(id) : a.deliveryAttempt = last
            /\ \A t \in TimersOf(id) : t.ping.deliveryAttempt = last + 1
            /\ \A a \in SuccessesOf(id) : a.deliveryAttempt = last

\* C13 witness: the third attempt of a ping is in flight alone after two
\* failures of different kinds
C13_Witness ==
    /\ \E a \in BagToSet(inflight) : a.deliveryAttempt = 3 /\ TimersOf(a.pingId) = {}
    /\ statistics.errorsTimeout = 1
    /\ statistics.errors500 = 1

\* C14: the prober's tick needs nothing from the deliveries: while the client
\* runs (and the model's ping budget lasts) a tick can fire whatever is in
\* flight or awaiting retry; and a step that changes the attempt in flight or
\* the pending retry of one ping leaves those of every other ping as they were.
C14_IndependentChains ==
    /\ []((clientUp /\ pingId + probes <= MaxPings) => ENABLED Tick)
    /\ [][ \A id, other \in PingIds :
              (/\ id # other
               /\ \/ InFlightOf(id)' # InFlightOf(id)
                  \/ TimersOf(id)' # TimersOf(id))
              => /\ InFlightOf(other)' = InFlightOf(other)
                 /\ TimersOf(other)' = TimersOf(other)
         ]_vars

\* C14 witness: the second attempt of one ping is in flight while another ping
\* awaits its retry
C14_Witness ==
    /\ clientUp
    /\ \E a \in BagToSet(inflight) : \E t \in BagToSet(timers) :
          /\ a.pingId # t.ping.pingId
          /\ a.deliveryAttempt = 2
          /\ t.ping.deliveryAttempt = 2
    /\ statistics.requests = 3

\* the request listener has just taken the success branch on a validated request
Accepted ==
    /\ Handled
    /\ srvLast'.req \in ValidRequests
    /\ srvLast'.r \in 0..(OK_CHANCE - 1)
    /\ srvLast'.status = 200

\* C15: every step of the collector leaves the store as it was or appends one
\* record at its end; it appends exactly when a validated request takes the
\* success branch, and the record appended has the pingId, deliveryAttempt,
\* date and responseTime of that request.  Computing the statistics on exit
\* changes nothing.
C15_AppendOnly ==
    [][ LET n == Len(collectedPings)
        IN  /\ \/ /\ collectedPings' = collectedPings
                  /\ ~Accepted
               \/ /\ Len(collectedPings') = n + 1
                  /\ SubSeq(collectedPings', 1, n) = collectedPings
                  /\ Accepted
                  /\ ToPing(collectedPings'[n + 1]) = ToPing(srvLast'.req.body.f)
            /\ serverReport' # serverReport => collectedPings' = collectedPings
      ]_vars

\* C15 witness: three records were accepted in an order that is not sorted and
\* the exit statistics were computed over them
C15_Witness ==
    /\ Len(collectedPings) = 3
    /\ StoredTimes = << 42, 1, 10 >>
    /\ ~serverUp
    /\ serverReport.kind # "none"
    /\ serverReport.median = 10

\* C16: the collector does not deduplicate.  Two records of one pingId in the
\* store are two different attempts, the later one a higher attempt, and the
\* earlier one is an attempt the client did not count as a success and retried.
C16_NoDeduplication ==
    \A i, j \in 1..Len(collectedPings) :
        LET a == ToPing(collectedPings[i])
            b == ToPing(collectedPings[j])
        IN  (i < j /\ a.pingId = b.pingId) =>
               /\ a.deliveryAttempt < b.deliveryAttempt
               /\ ~BagIn(a, successLog)
               /\ AttemptSent(a.pingId, a.deliveryAttempt + 1)

\* C16 witness: attempts 1 and 2 of one ping are both in the store, the first
\* accepted by the collector but timed out at the client
C16_Witness ==
    /\ Len(collectedPings) = 2
    /\ ToPing(collectedPings[1]).pingId = ToPing(collectedPings[2]).pingId
    /\ ToPing(collectedPings[1]).deliveryAttempt = 1
    /\ ToPing(collectedPings[2]).deliveryAttempt = 2
    /\ statistics.errorsTimeout = 1
    /\ statistics.errors500 = 0
    /\ unclassified = 0
    /\ statistics.requests = 2

-----------------------------------------------------------------------------
(* Payloads that never validate, hangs, and what a 200 ends *)

\* attempt a carries a member that is not a number >= 0
InvalidPayload(a) == \E k \in Keys : a[k] < 0

\* the responses on their way to the client for attempt a
AnswersTo(a) == {x \in BagToSet(resps) : x.req = ClientRequest(a)}

Hung(a) ==
    /\ clientUp
    /\ BagIn(a, inflight)
    /\ ~BagIn(ClientRequest(a), reqs)
    /\ AnswersTo(a) = {}

C19_SuccessIsTerminal ==
    /\ [](/\ \A a \in BagToSet(successLog) :
                /\ CopiesOver(successLog, SuccessesOf(a.pingId)) = 1
                /\ InFlightOf(a.pingId) = {}
                /\ TimersOf(a.pingId) = {}
                /\ \A n \in AttemptsSent(a.pingId) : n <= a.deliveryAttempt
          /\ statistics.success = BagCardinality(successLog)
          /\ statistics.success <= Len(emitted))
    /\ [][ \A a \in BagToSet(successLog) :
              /\ BagIn(a, successLog')
              /\ AttemptsSent(a.pingId)' = AttemptsSent(a.pingId)
         ]_vars

\* C19 witness: one ping succeeded on its second attempt and is at rest while
\* the client goes on sending attempts of the other ping
C19_Witness ==
    /\ clientUp
    /\ \E a \in BagToSet(successLog) : \E b \in BagToSet(inflight) :
          /\ a.deliveryAttempt = 2
          /\ b.pingId # a.pingId
          /\ b.deliveryAttempt = 2
    /\ statistics.success = 1

\* C20: with this client alone, success never exceeds the number of records
\* stored; every attempt counted as a success is in the store; no two records
\* have the same pingId and deliveryAttempt; and every record is the body of
\* an attempt the client sent.
C20_StoreMatchesClient ==
    /\ statistics.success <= Len(collectedPings)
    /\ \A a \in BagToSet(successLog) :
          \E i \in 1..Len(collectedPings) : ToPing(collectedPings[i]) = a
    /\ \A i, j \in 1..Len(collectedPings) :
          (/\ ToPing(collectedPings[i]).pingId = ToPing(collectedPings[j]).pingId
           /\ ToPing(collectedPings[i]).deliveryAttempt
                 = ToPing(collectedPings[j]).deliveryAttempt) => i = j
    /\ \A i \in 1..Len(collectedPings) :
          \E a \in BagToSet(sent) : collectedPings[i] = JSONstringify(a).f

\* C20 witness: two attempts are stored and only the second was counted, the
\* answer to the first having been lost to the idle timeout
C20_Witness ==
    /\ statistics.success = 1
    /\ Len(collectedPings) = 2
    /\ statistics.errorsTimeout = 1
    /\ \E a \in BagToSet(successLog) :
          /\ a.deliveryAttempt = 2
          /\ ToPing(collectedPings[2]) = a
=============================================================================
